---- MODULE Spec2Model ----
(***************************************************************************)
(* Discrete-event simulation of a fuel station (src/simulation.py).        *)
(* The state is that of run_simulation: the column records, the heap of    *)
(* events, the two counters, the event counter and the clock.  One action  *)
(* is one iteration of the "while event_queue" loop.                       *)
(*                                                                         *)
(* Optional values (None in the source) are sequences of length 0 or 1.    *)
(* Every request carries the ghost field id (its index in clients_data),   *)
(* standing for the identity of the Python dict; a departure event carries *)
(* the ghost field start (the local "start" of start_service).             *)
(***************************************************************************)
EXTENDS Integers, Sequences, FiniteSets, TLC

VARIABLES columns, event_queue, stats, event_counter, current_time, pc,
          clients_data, admitted, services, outcomes, popped, twin, bare,
          call

vars == <<columns, event_queue, stats, event_counter, current_time, pc,
          clients_data, admitted, services, outcomes, popped, twin, bare,
          call>>

(***************************************************************************)
(* Bounds of the model.                                                    *)
(***************************************************************************)
MaxQueue == 2
MaxClients == 3
MaxAmount == 40

(***************************************************************************)
(* Program constants (module constants, imported by simulation.py).        *)
(***************************************************************************)
MINUTES_IN_DAY == 1440
REFUELING_RATE == 10
VALID_GASOLINE_TYPES == {"92", "95"}

\* random.choice([-1, 0, 1])
JITTER == {-1, 0, 1}

\* arrival minutes and (quantity, type) pairs the requests are drawn from
ArrivalMinutes == {0, 1, 1439}
RequestKinds == {[value |-> 10, fuel_type |-> "95"],
                 [value |-> 20, fuel_type |-> "92"]}
\* the fuel type lists a column is given, and the column numbers of a station:
\* one column, or two columns whose numbers differ from their list positions
FuelTypeSets == {{"95"}, {"92", "95"}}
ColumnNumberSets == {{2}, {2, 5}}

None == <<>>
Some(v) == <<v>>
Max(a, b) == IF a >= b THEN a ELSE b

\* variant rounding down (// for math.ceil of /)
CeilFloorDiv(a, b) == a \div b

\* math.ceil(a / b) for positive integers
Ceil(a, b) == (a + b - 1) \div b

(***************************************************************************)
(* calculate_service_time, with the value drawn by random.choice as an     *)
(* argument.                                                               *)
(***************************************************************************)
\* variant without the clamp to one minute
ServiceTimeNoClamp(fuel_amount, variation) ==
    Ceil(fuel_amount, REFUELING_RATE) + variation

calculate_service_time(fuel_amount, variation) ==
    LET base_time == Ceil(fuel_amount, REFUELING_RATE)
    IN  Max(1, base_time + variation)

(***************************************************************************)
(* prepare_columns_data: one record per column, sorted by number.          *)
(***************************************************************************)
RECURSIVE InsertByNumber(_, _)
InsertByNumber(col, sorted) ==
    IF sorted = <<>> THEN <<col>>
    ELSE IF Head(sorted).number <= col.number
         THEN <<Head(sorted)>> \o InsertByNumber(col, Tail(sorted))
         ELSE <<col>> \o sorted

RECURSIVE SortByNumber(_)
SortByNumber(cols) ==
    IF cols = <<>> THEN <<>>
    ELSE InsertByNumber(cols[Len(cols)], SortByNumber(SubSeq(cols, 1, Len(cols) - 1)))

\* variant that starts the high-water mark at the capacity of the line
PrepareColumnsObservedFromCapacity(columns_info) ==
    SortByNumber([i \in 1..Len(columns_info) |->
        [number             |-> columns_info[i].column_number,
         max_queue          |-> columns_info[i].max_workload,
         fuel_types         |-> columns_info[i].fuel_type,
         queue              |-> <<>>,
         current_client     |-> None,
         time_free          |-> 0,
         total_liters_sold  |-> 0,
         clients_served     |-> 0,
         sales_by_brand     |-> [b \in VALID_GASOLINE_TYPES |-> 0],
         max_queue_observed |-> columns_info[i].max_workload]])

prepare_columns_data(columns_info) ==
    SortByNumber([i \in 1..Len(columns_info) |->
        [number             |-> columns_info[i].column_number,
         max_queue          |-> columns_info[i].max_workload,
         fuel_types         |-> columns_info[i].fuel_type,
         queue              |-> <<>>,
         current_client     |-> None,
         time_free          |-> 0,
         total_liters_sold  |-> 0,
         clients_served     |-> 0,
         sales_by_brand     |-> [b \in VALID_GASOLINE_TYPES |-> 0],
         max_queue_observed |-> 0]])

(***************************************************************************)
(* find_best_column: the indices of the suitable columns in list order,    *)
(* stably sorted by (queue_length, number); the first one is returned.     *)
(* The result is an index into cols, 0 for None.                           *)
(***************************************************************************)
NoColumn == 0

\* variant admitting into a full line (<= for <)
IsSuitableFull(col, fuel_type) ==
    fuel_type \in col.fuel_types /\ Len(col.queue) <= col.max_queue

IsSuitable(col, fuel_type) ==
    fuel_type \in col.fuel_types /\ Len(col.queue) < col.max_queue

Suitable(cols, fuel_type) ==
    SelectSeq([i \in 1..Len(cols) |-> i],
              LAMBDA i : IsSuitable(cols[i], fuel_type))

\* variant counting the request in service into the key
KeyLessCountingService(cols, a, b) ==
    LET load(c) == Len(cols[c].queue) + Len(cols[c].current_client)
    IN  \/ load(a) < load(b)
        \/ load(a) = load(b) /\ cols[a].number < cols[b].number

\* variant sorting by number alone
KeyLessNumberOnly(cols, a, b) == cols[a].number < cols[b].number

\* key (queue_length, number) of a before that of b, lexicographically
KeyLess(cols, a, b) ==
    \/ Len(cols[a].queue) < Len(cols[b].queue)
    \/ Len(cols[a].queue) = Len(cols[b].queue) /\ cols[a].number < cols[b].number

RECURSIVE InsertByKey(_, _, _)
InsertByKey(cols, i, sorted) ==
    IF sorted = <<>> THEN <<i>>
    ELSE IF KeyLess(cols, i, Head(sorted))
         THEN <<i>> \o sorted
         ELSE <<Head(sorted)>> \o InsertByKey(cols, i, Tail(sorted))

RECURSIVE SortByKey(_, _)
SortByKey(cols, idx) ==
    IF idx = <<>> THEN <<>>
    ELSE InsertByKey(cols, idx[Len(idx)], SortByKey(cols, SubSeq(idx, 1, Len(idx) - 1)))

find_best_column(cols, fuel_type) ==
    LET suitable == Suitable(cols, fuel_type)
    IN  IF suitable = <<>> THEN NoColumn
        ELSE Head(SortByKey(cols, suitable))

(***************************************************************************)
(* start_service: result is the column after the call and the optional     *)
(* departure event.                                                        *)
(***************************************************************************)
\* variant taking the last request of the line (pop() for pop(0))
StartServiceTail(column, now) ==
    IF column.queue = <<>> \/ column.current_client # None
    THEN [column |-> column, dep |-> None]
    ELSE LET client == column.queue[Len(column.queue)]
             start  == Max(now, column.time_free)
             finish == start + client.service_time
         IN  [column |-> [column EXCEPT
                  !.queue = SubSeq(column.queue, 1, Len(column.queue) - 1),
                  !.current_client = Some(client),
                  !.time_free = finish,
                  !.total_liters_sold = @ + client.amount,
                  !.clients_served = @ + 1,
                  !.sales_by_brand[client.fuel_type] = @ + client.amount],
              dep |-> Some([time |-> finish, type |-> "departure",
                            column |-> column.number, client |-> client,
                            start |-> start])]

\* variant using start where finish is meant (time_free and event time)
StartServiceStartForFinish(column, now) ==
    IF column.queue = <<>> \/ column.current_client # None
    THEN [column |-> column, dep |-> None]
    ELSE LET client == Head(column.queue)
             start  == Max(now, column.time_free)
         IN  [column |-> [column EXCEPT
                  !.queue = Tail(column.queue),
                  !.current_client = Some(client),
                  !.time_free = start,
                  !.total_liters_sold = @ + client.amount,
                  !.clients_served = @ + 1,
                  !.sales_by_brand[client.fuel_type] = @ + client.amount],
              dep |-> Some([time |-> start, type |-> "departure",
                            column |-> column.number, client |-> client,
                            start |-> start])]

\* variant that reads the head of the line without removing it (queue[0]
\* for queue.pop(0))
StartServiceNoPop(column, now) ==
    IF column.queue = <<>> \/ column.current_client # None
    THEN [column |-> column, dep |-> None]
    ELSE LET client == Head(column.queue)
             start  == Max(now, column.time_free)
             finish == start + client.service_time
         IN  [column |-> [column EXCEPT
                  !.current_client = Some(client),
                  !.time_free = finish,
                  !.total_liters_sold = @ + client.amount,
                  !.clients_served = @ + 1,
                  !.sales_by_brand[client.fuel_type] = @ + client.amount],
              dep |-> Some([time |-> finish, type |-> "departure",
                            column |-> column.number, client |-> client,
                            start |-> start])]

\* variant that leaves sales_by_brand alone
StartServiceNoBrand(column, now) ==
    IF column.queue = <<>> \/ column.current_client # None
    THEN [column |-> column, dep |-> None]
    ELSE LET client == Head(column.queue)
             start  == Max(now, column.time_free)
             finish == start + client.service_time
         IN  [column |-> [column EXCEPT
                  !.queue = Tail(column.queue),
                  !.current_client = Some(client),
                  !.time_free = finish,
                  !.total_liters_sold = @ + client.amount,
                  !.clients_served = @ + 1],
              dep |-> Some([time |-> finish, type |-> "departure",
                            column |-> column.number, client |-> client,
                            start |-> start])]

\* variant that does not count the request on the column
StartServiceNoCount(column, now) ==
    IF column.queue = <<>> \/ column.current_client # None
    THEN [column |-> column, dep |-> None]
    ELSE LET client == Head(column.queue)
             start  == Max(now, column.time_free)
             finish == start + client.service_time
         IN  [column |-> [column EXCEPT
                  !.queue = Tail(column.queue),
                  !.current_client = Some(client),
                  !.time_free = finish,
                  !.total_liters_sold = @ + client.amount,
                  !.sales_by_brand[client.fuel_type] = @ + client.amount],
              dep |-> Some([time |-> finish, type |-> "departure",
                            column |-> column.number, client |-> client,
                            start |-> start])]

\* variant that keeps the column reserved one minute past the finish
StartServiceGap(column, now) ==
    IF column.queue = <<>> \/ column.current_client # None
    THEN [column |-> column, dep |-> None]
    ELSE LET client == Head(column.queue)
             start  == Max(now, column.time_free)
             finish == start + client.service_time
         IN  [column |-> [column EXCEPT
                  !.queue = Tail(column.queue),
                  !.current_client = Some(client),
                  !.time_free = finish + 1,
                  !.total_liters_sold = @ + client.amount,
                  !.clients_served = @ + 1,
                  !.sales_by_brand[client.fuel_type] = @ + client.amount],
              dep |-> Some([time |-> finish, type |-> "departure",
                            column |-> column.number, client |-> client,
                            start |-> start])]

start_service(column, now) ==
    IF column.queue = <<>> \/ column.current_client # None
    THEN [column |-> column, dep |-> None]
    ELSE LET client == Head(column.queue)
             start  == Max(now, column.time_free)
             finish == start + client.service_time
         IN  [column |-> [column EXCEPT
                  !.queue = Tail(column.queue),
                  !.current_client = Some(client),
                  !.time_free = finish,
                  !.total_liters_sold = @ + client.amount,
                  !.clients_served = @ + 1,
                  !.sales_by_brand[client.fuel_type] = @ + client.amount],
              dep |-> Some([time |-> finish, type |-> "departure",
                            column |-> column.number, client |-> client,
                            start |-> start])]

(***************************************************************************)
(* process_arrival: result is the columns and counters after the call and  *)
(* the optional departure event.                                           *)
(***************************************************************************)
\* variant that turns a request away without counting it
ProcessArrivalRejectNoCount(client, cols, now, st, variation) ==
    LET fuel_type    == client.fuel_type
        fuel_amount  == client.value
        service_time == calculate_service_time(fuel_amount, variation)
        best         == find_best_column(cols, fuel_type)
    IN  IF best = NoColumn
        THEN [columns |-> cols, stats |-> st, dep |-> None]
        ELSE LET queue_client == [id              |-> client.id,
                                  arrival_minutes |-> now,
                                  amount          |-> fuel_amount,
                                  fuel_type       |-> fuel_type,
                                  service_time    |-> service_time,
                                  column          |-> cols[best].number]
                 appended == [cols[best] EXCEPT !.queue = Append(@, queue_client)]
                 observed == IF Len(appended.queue) > appended.max_queue_observed
                             THEN [appended EXCEPT !.max_queue_observed = Len(appended.queue)]
                             ELSE appended
             IN  IF observed.current_client = None /\ observed.time_free <= now
                 THEN LET r == start_service(observed, now)
                      IN  [columns |-> [cols EXCEPT ![best] = r.column],
                           stats   |-> st,
                           dep     |-> r.dep]
                 ELSE [columns |-> [cols EXCEPT ![best] = observed],
                       stats   |-> st,
                       dep     |-> None]

\* variant that admits the request and never starts its service itself
ProcessArrivalNoStart(client, cols, now, st, variation) ==
    LET fuel_type    == client.fuel_type
        fuel_amount  == client.value
        service_time == calculate_service_time(fuel_amount, variation)
        best         == find_best_column(cols, fuel_type)
    IN  IF best = NoColumn
        THEN [columns |-> cols,
              stats   |-> [st EXCEPT !.rejected = @ + 1],
              dep     |-> None]
        ELSE LET queue_client == [id              |-> client.id,
                                  arrival_minutes |-> now,
                                  amount          |-> fuel_amount,
                                  fuel_type       |-> fuel_type,
                                  service_time    |-> service_time,
                                  column          |-> cols[best].number]
                 appended == [cols[best] EXCEPT !.queue = Append(@, queue_client)]
                 observed == IF Len(appended.queue) > appended.max_queue_observed
                             THEN [appended EXCEPT !.max_queue_observed = Len(appended.queue)]
                             ELSE appended
             IN  [columns |-> [cols EXCEPT ![best] = observed],
                  stats   |-> st,
                  dep     |-> None]

process_arrival(client, cols, now, st, variation) ==
    LET fuel_type    == client.fuel_type
        fuel_amount  == client.value
        service_time == calculate_service_time(fuel_amount, variation)
        best         == find_best_column(cols, fuel_type)
    IN  IF best = NoColumn
        THEN [columns |-> cols,
              stats   |-> [st EXCEPT !.rejected = @ + 1],
              dep     |-> None]
        ELSE LET queue_client == [id              |-> client.id,
                                  arrival_minutes |-> now,
                                  amount          |-> fuel_amount,
                                  fuel_type       |-> fuel_type,
                                  service_time    |-> service_time,
                                  column          |-> cols[best].number]
                 appended == [cols[best] EXCEPT !.queue = Append(@, queue_client)]
                 observed == IF Len(appended.queue) > appended.max_queue_observed
                             THEN [appended EXCEPT !.max_queue_observed = Len(appended.queue)]
                             ELSE appended
             IN  IF observed.current_client = None /\ observed.time_free <= now
                 THEN LET r == start_service(observed, now)
                      IN  [columns |-> [cols EXCEPT ![best] = r.column],
                           stats   |-> st,
                           dep     |-> r.dep]
                 ELSE [columns |-> [cols EXCEPT ![best] = observed],
                       stats   |-> st,
                       dep     |-> None]

(***************************************************************************)
(* process_departure.                                                      *)
(***************************************************************************)
\* variant that takes the first column whatever its number
LookupColumnFirst(cols, number) ==
    IF cols = <<>> THEN NoColumn ELSE 1

\* next((c for c in columns if c['number'] == event['column']), None)
LookupColumn(cols, number) ==
    LET hits == SelectSeq([i \in 1..Len(cols) |-> i],
                          LAMBDA i : cols[i].number = number)
    IN  IF hits = <<>> THEN NoColumn ELSE Head(hits)

SameClient(current, event_client) ==
    /\ current.arrival_minutes = event_client.arrival_minutes
    /\ current.amount = event_client.amount
    /\ current.fuel_type = event_client.fuel_type

\* variant that counts the departure but leaves the request in the slot
ProcessDepartureNoClear(event, cols, now, st) ==
    LET c == LookupColumn(cols, event.column)
    IN  IF c # NoColumn /\ cols[c].current_client # None
           /\ SameClient(Head(cols[c].current_client), event.client)
        THEN [columns |-> cols,
              stats   |-> [st EXCEPT !.served = @ + 1],
              dep     |-> None]
        ELSE [columns |-> cols, stats |-> st, dep |-> None]

\* variant that frees the slot and counts, but does not start the next request
ProcessDepartureNoStart(event, cols, now, st) ==
    LET c == LookupColumn(cols, event.column)
    IN  IF c # NoColumn /\ cols[c].current_client # None
           /\ SameClient(Head(cols[c].current_client), event.client)
        THEN [columns |-> [cols EXCEPT ![c].current_client = None],
              stats   |-> [st EXCEPT !.served = @ + 1],
              dep     |-> None]
        ELSE [columns |-> cols, stats |-> st, dep |-> None]

\* variant that clears the slot of every column whose request has the
\* event's fields, not only the column the event names
ProcessDepartureAnyColumn(event, cols, now, st) ==
    LET c == LookupColumn(cols, event.column)
        cleared == [i \in 1..Len(cols) |->
                       IF cols[i].current_client # None
                          /\ SameClient(Head(cols[i].current_client), event.client)
                       THEN [cols[i] EXCEPT !.current_client = None]
                       ELSE cols[i]]
    IN  IF c # NoColumn /\ cols[c].current_client # None
           /\ SameClient(Head(cols[c].current_client), event.client)
        THEN LET served == [st EXCEPT !.served = @ + 1]
             IN  IF cleared[c].queue # <<>>
                 THEN LET r == start_service(cleared[c], now)
                      IN  [columns |-> [cleared EXCEPT ![c] = r.column],
                           stats   |-> served,
                           dep     |-> r.dep]
                 ELSE [columns |-> cleared,
                       stats   |-> served,
                       dep     |-> None]
        ELSE [columns |-> cols, stats |-> st, dep |-> None]

\* variant that does not count the departure
ProcessDepartureNoCount(event, cols, now, st) ==
    LET c == LookupColumn(cols, event.column)
    IN  IF c # NoColumn /\ cols[c].current_client # None
           /\ SameClient(Head(cols[c].current_client), event.client)
        THEN LET freed == [cols[c] EXCEPT !.current_client = None]
             IN  IF freed.queue # <<>>
                 THEN LET r == start_service(freed, now)
                      IN  [columns |-> [cols EXCEPT ![c] = r.column],
                           stats   |-> st,
                           dep     |-> r.dep]
                 ELSE [columns |-> [cols EXCEPT ![c] = freed],
                       stats   |-> st,
                       dep     |-> None]
        ELSE [columns |-> cols, stats |-> st, dep |-> None]

process_departure(event, cols, now, st) ==
    LET c == LookupColumn(cols, event.column)
    IN  IF c # NoColumn /\ cols[c].current_client # None
           /\ SameClient(Head(cols[c].current_client), event.client)
        THEN LET freed  == [cols[c] EXCEPT !.current_client = None]
                 served == [st EXCEPT !.served = @ + 1]
             IN  IF freed.queue # <<>>
                 THEN LET r == start_service(freed, now)
                      IN  [columns |-> [cols EXCEPT ![c] = r.column],
                           stats   |-> served,
                           dep     |-> r.dep]
                 ELSE [columns |-> [cols EXCEPT ![c] = freed],
                       stats   |-> served,
                       dep     |-> None]
        ELSE [columns |-> cols, stats |-> st, dep |-> None]

(***************************************************************************)
(* The event heap of run_simulation: tuples (time, counter, type, data),   *)
(* kept as a set; heappop removes a least tuple by (time, counter).        *)
(***************************************************************************)
\* variant breaking a tie in time by the larger counter
TupleLENewestFirst(e, o) ==
    e.time < o.time \/ (e.time = o.time /\ e.counter >= o.counter)

\* variant comparing the times only (tuples pushed without the counter)
TupleLETimeOnly(e, o) == e.time <= o.time

TupleLE(e, o) ==
    e.time < o.time \/ (e.time = o.time /\ e.counter <= o.counter)

HeapMin(heap) == {e \in heap : \A o \in heap : TupleLE(e, o)}

heappush(heap, time, counter, type, data) ==
    heap \cup {[time |-> time, counter |-> counter, type |-> type, data |-> data]}

\* lines 196-199: one arrival event per client, counters 0, 1, 2, ...
SeedEvents(clients) ==
    {[time |-> clients[i].minutes, counter |-> i - 1,
      type |-> "arrival", data |-> clients[i]] : i \in 1..Len(clients)}

\* lines 218-222, 227-231, 235-239: push the event if there is one
PushIfAny(s, dep) ==
    IF dep = None THEN s
    ELSE [s EXCEPT
            !.event_queue = heappush(@, Head(dep).time, s.event_counter,
                                     Head(dep).type, Head(dep)),
            !.event_counter = @ + 1]

\* lines 224-231: the scan of all columns after an arrival, from column i on
RECURSIVE Rescan(_, _)
Rescan(s, i) ==
    IF i > Len(s.columns) THEN s
    ELSE LET col == s.columns[i]
         IN  IF col.current_client = None /\ col.queue # <<>>
             THEN LET r == start_service(col, s.current_time)
                  IN  Rescan(PushIfAny([s EXCEPT !.columns[i] = r.column], r.dep), i + 1)
             ELSE Rescan(s, i + 1)

(***************************************************************************)
(* One iteration of the loop of run_simulation (lines 205-241) on the      *)
(* program state s, for the popped tuple ev and the jitter drawn.          *)
(***************************************************************************)
ArrivalIteration(s, ev, variation) ==
    LET t == [s EXCEPT !.event_queue = @ \ {ev}, !.current_time = ev.time]
        r == process_arrival(ev.data, t.columns, t.current_time, t.stats, variation)
        u == PushIfAny([t EXCEPT !.columns = r.columns, !.stats = r.stats], r.dep)
    IN  Rescan(u, 1)

DepartureIteration(s, ev) ==
    LET t == [s EXCEPT !.event_queue = @ \ {ev}, !.current_time = ev.time]
        r == process_departure(ev.data, t.columns, t.current_time, t.stats)
    IN  PushIfAny([t EXCEPT !.columns = r.columns, !.stats = r.stats], r.dep)

BreakIteration(s, ev) ==
    [s EXCEPT !.event_queue = @ \ {ev}, !.current_time = ev.time, !.pc = "done"]

\* variant that breaks already at the horizon (>= for >)
LoopIterationBreakAtHorizon(s, ev, variation) ==
    IF ev.time >= MINUTES_IN_DAY THEN BreakIteration(s, ev)
    ELSE IF ev.type = "arrival" THEN ArrivalIteration(s, ev, variation)
    ELSE DepartureIteration(s, ev)

LoopIteration(s, ev, variation) ==
    IF ev.time > MINUTES_IN_DAY THEN BreakIteration(s, ev)
    ELSE IF ev.type = "arrival" THEN ArrivalIteration(s, ev, variation)
    ELSE DepartureIteration(s, ev)

(***************************************************************************)
(* The loop with lines 224-231 removed: an arrival is processed and its    *)
(* event pushed, and no column is scanned afterwards.                      *)
(***************************************************************************)
ArrivalIterationNoRescan(s, ev, variation) ==
    LET t == [s EXCEPT !.event_queue = @ \ {ev}, !.current_time = ev.time]
        r == process_arrival(ev.data, t.columns, t.current_time, t.stats, variation)
    IN  PushIfAny([t EXCEPT !.columns = r.columns, !.stats = r.stats], r.dep)

LoopIterationNoRescan(s, ev, variation) ==
    IF ev.time > MINUTES_IN_DAY THEN BreakIteration(s, ev)
    ELSE IF ev.type = "arrival" THEN ArrivalIterationNoRescan(s, ev, variation)
    ELSE DepartureIteration(s, ev)

\* lines 186-202: the state at the first test of the loop condition
InitialState(columns_info, clients) ==
    [columns       |-> prepare_columns_data(columns_info),
     event_queue   |-> SeedEvents(clients),
     stats         |-> [served |-> 0, rejected |-> 0],
     event_counter |-> Len(clients),
     current_time  |-> 0,
     pc            |-> "loop"]

(***************************************************************************)
(* Inputs: what read_fuel_info and read_input hand over.                   *)
(***************************************************************************)
\* read_fuel_info sorts the columns by number (line 62)
RECURSIVE Ascending(_)
Ascending(numbers) ==
    IF numbers = {} THEN <<>>
    ELSE LET least == CHOOSE n \in numbers : \A o \in numbers : n <= o
         IN  <<least>> \o Ascending(numbers \ {least})

\* a station: its column numbers, one max_workload for all its columns, and a
\* fuel type list per column
ColumnInfos ==
    UNION {{[i \in 1..Len(Ascending(numbers)) |->
                [column_number |-> Ascending(numbers)[i],
                 max_workload  |-> w,
                 fuel_type     |-> t[Ascending(numbers)[i]]]] :
              w \in 0..MaxQueue, t \in [numbers -> FuelTypeSets]} :
           numbers \in ColumnNumberSets}

\* read_input sorts the requests by minutes (line 132)
ClientLists ==
    UNION {{[i \in 1..n |-> [id        |-> i - 1,
                             minutes   |-> f[i].m,
                             value     |-> f[i].k.value,
                             fuel_type |-> f[i].k.fuel_type]] :
              f \in {g \in [1..n -> [m : ArrivalMinutes, k : RequestKinds]] :
                        \A i \in 1..(n - 1) : g[i].m <= g[i + 1].m}} :
           n \in 0..MaxClients}

(***************************************************************************)
(* The program state as a record, and the assignment of a record to the    *)
(* variables.                                                              *)
(***************************************************************************)
State ==
    [columns       |-> columns,
     event_queue   |-> event_queue,
     stats         |-> stats,
     event_counter |-> event_counter,
     current_time  |-> current_time,
     pc            |-> pc]

\* history: the requests admitted to column i and the services started on it
AdmittedAfter(s, ev) ==
    [i \in 1..Len(columns) |->
        IF Len(s.columns[i].queue) + s.columns[i].clients_served
             > Len(columns[i].queue) + columns[i].clients_served
        THEN Append(admitted[i], ev.data.id)
        ELSE admitted[i]]

ServicesAfter(s) ==
    [i \in 1..Len(columns) |->
        LET new == {e \in s.event_queue \ event_queue :
                       e.data.column = columns[i].number}
        IN  IF new = {} THEN services[i]
            ELSE LET e == CHOOSE e \in new : TRUE
                 IN  Append(services[i],
                            [id     |-> e.data.client.id,
                             start  |-> e.data.start,
                             finish |-> e.data.start + e.data.client.service_time])]

\* history: the requests counted as rejected and those counted as served (the
\* request a departure took out of its in-service slot), in order
OutcomesAfter(s, ev) ==
    LET freed == SelectSeq([i \in 1..Len(columns) |-> i],
                           LAMBDA i : /\ columns[i].current_client # None
                                      /\ s.columns[i].current_client
                                            # columns[i].current_client)
    IN  [rejected |-> IF s.stats.rejected # stats.rejected
                      THEN Append(outcomes.rejected, ev.data.id)
                      ELSE outcomes.rejected,
         departed |-> outcomes.departed \o
                      [k \in 1..Len(freed) |->
                          Head(columns[freed[k]].current_client).id]]

Commit(s, ev) ==
    /\ columns' = s.columns
    /\ event_queue' = s.event_queue
    /\ stats' = s.stats
    /\ event_counter' = s.event_counter
    /\ current_time' = s.current_time
    /\ pc' = s.pc
    /\ popped' = Some(ev)
    /\ UNCHANGED <<clients_data, call>>

\* twinned: a second run over the same inputs is carried along in twin;
\* bared: a run of the loop without lines 224-231 is carried along in bare
InitWith(twinned, bared) ==
    \E columns_info \in ColumnInfos, clients \in ClientLists :
        LET s == InitialState(columns_info, clients)
        IN  /\ columns = s.columns
            /\ event_queue = s.event_queue
            /\ stats = s.stats
            /\ event_counter = s.event_counter
            /\ current_time = s.current_time
            /\ pc = s.pc
            /\ clients_data = clients
            /\ admitted = [i \in 1..Len(s.columns) |-> <<>>]
            /\ services = [i \in 1..Len(s.columns) |-> <<>>]
            /\ outcomes = [rejected |-> <<>>, departed |-> <<>>]
            /\ popped = None
            /\ call = None
            /\ twin = IF twinned THEN Some(s) ELSE None
            /\ bare = IF bared THEN Some(s) ELSE None

Init == InitWith(FALSE, FALSE)

InitTwin == InitWith(TRUE, FALSE)

InitNoRescan == InitWith(FALSE, TRUE)

\* the states the second run can be in after its next loop iteration, when
\* it is fed the same jitter value
TwinSuccessors(t, variation) ==
    IF t.pc = "done" THEN {t}
    ELSE IF t.event_queue = {} THEN {[t EXCEPT !.pc = "done"]}
    ELSE {LoopIteration(t, ev, variation) : ev \in HeapMin(t.event_queue)}

TwinFollows(variation) ==
    \/ twin = None /\ twin' = None
    \/ twin # None /\ \E t \in TwinSuccessors(Head(twin), variation) :
                          twin' = Some(t)

\* the states the loop without lines 224-231 can be in after its next
\* iteration, when it is fed the same jitter value
BareSuccessors(t, variation) ==
    IF t.pc = "done" THEN {t}
    ELSE IF t.event_queue = {} THEN {[t EXCEPT !.pc = "done"]}
    ELSE {LoopIterationNoRescan(t, ev, variation) : ev \in HeapMin(t.event_queue)}

BareFollows(variation) ==
    \/ bare = None /\ bare' = None
    \/ bare # None /\ \E t \in BareSuccessors(Head(bare), variation) :
                          bare' = Some(t)

\* an arrival event is popped within the horizon
Arrival ==
    /\ pc = "loop"
    /\ \E ev \in HeapMin(event_queue), variation \in JITTER :
        /\ ev.time <= MINUTES_IN_DAY
        /\ ev.type = "arrival"
        /\ LET s == LoopIteration(State, ev, variation)
           IN  /\ Commit(s, ev)
               /\ admitted' = AdmittedAfter(s, ev)
               /\ services' = ServicesAfter(s)
               /\ outcomes' = OutcomesAfter(s, ev)
        /\ TwinFollows(variation)
        /\ BareFollows(variation)

\* a departure event is popped within the horizon
Departure ==
    /\ pc = "loop"
    /\ \E ev \in HeapMin(event_queue) :
        /\ ev.time <= MINUTES_IN_DAY
        /\ ev.type = "departure"
        /\ LET s == LoopIteration(State, ev, 0)
           IN  /\ Commit(s, ev)
               /\ services' = ServicesAfter(s)
               /\ outcomes' = OutcomesAfter(s, ev)
    /\ TwinFollows(0)
    /\ BareFollows(0)
    /\ UNCHANGED admitted

\* the popped event lies beyond the horizon: break (lines 208-209)
HorizonBreak ==
    /\ pc = "loop"
    /\ \E ev \in HeapMin(event_queue) :
        /\ ev.time > MINUTES_IN_DAY
        /\ Commit(LoopIteration(State, ev, 0), ev)
    /\ TwinFollows(0)
    /\ BareFollows(0)
    /\ UNCHANGED <<admitted, services, outcomes>>

\* the loop condition fails: the heap is empty (line 204)
LoopExit ==
    /\ pc = "loop"
    /\ event_queue = {}
    /\ pc' = "done"
    /\ TwinFollows(0)
    /\ BareFollows(0)
    /\ UNCHANGED <<columns, event_queue, stats, event_counter, current_time,
                   clients_data, admitted, services, outcomes, popped, call>>

Next == Arrival \/ Departure \/ HorizonBreak \/ LoopExit

Spec == Init /\ [][Next]_vars

\* what every step of Next does to pc and popped: the loop is left on an
\* empty heap, or the least tuple is popped and the loop goes on or breaks
LoopStep ==
    /\ pc = "loop"
    /\ \/ event_queue = {} /\ pc' = "done" /\ popped' = popped
       \/ \E ev \in HeapMin(event_queue) :
             /\ popped' = Some(ev)
             /\ pc' = IF ev.time > MINUTES_IN_DAY THEN "done" ELSE "loop"

\* the loop is sequential code that keeps running: while it has not ended,
\* its next iteration or its exit is eventually executed.  The steps are
\* those of Next; the fairness is stated on their effect on pc and popped,
\* which every step of Next changes.
SpecFair == Init /\ [][Next]_vars /\ WF_<<pc, popped>>(LoopStep)

\* two runs over the same inputs and the same jitter values, side by side
SpecTwin == InitTwin /\ [][Next]_vars

\* the program and the loop without lines 224-231, over the same inputs and
\* the same jitter values, side by side
SpecNoRescan == InitNoRescan /\ [][Next]_vars

(***************************************************************************)
(* calculate_service_time on its own: one call with a positive quantity    *)
(* and the value random.choice draws; no station, no requests.             *)
(***************************************************************************)
InitServiceTime ==
    /\ \E q \in 1..MaxAmount, j \in JITTER :
          call = Some([fuel_amount |-> q, variation |-> j, result |-> None])
    /\ columns = <<>>
    /\ event_queue = {}
    /\ stats = [served |-> 0, rejected |-> 0]
    /\ event_counter = 0
    /\ current_time = 0
    /\ pc = "call"
    /\ clients_data = <<>>
    /\ admitted = <<>>
    /\ services = <<>>
    /\ outcomes = [rejected |-> <<>>, departed |-> <<>>]
    /\ popped = None
    /\ twin = None
    /\ bare = None

CallServiceTime ==
    /\ call # None
    /\ Head(call).result = None
    /\ call' = Some([Head(call) EXCEPT !.result =
                        Some(calculate_service_time(Head(call).fuel_amount,
                                                    Head(call).variation))])
    /\ UNCHANGED <<columns, event_queue, stats, event_counter, current_time,
                   pc, clients_data, admitted, services, outcomes, popped, twin,
                   bare>>

SpecServiceTime == InitServiceTime /\ [][CallServiceTime]_vars

TypeOK ==
    /\ pc \in {"loop", "done"}
    /\ stats.served \in Nat /\ stats.rejected \in Nat
    /\ \A i \in 1..Len(columns) : Len(columns[i].current_client) <= 1

(***************************************************************************)
(* Derived quantities used by the properties.                              *)
(***************************************************************************)
RECURSIVE SumTo(_, _)
SumTo(f, n) == IF n = 0 THEN 0 ELSE f[n] + SumTo(f, n - 1)

\* arrival events taken off the heap so far
ProcessedArrivals ==
    Len(clients_data) - Cardinality({e \in event_queue : e.type = "arrival"})

\* requests waiting or in service
InSystem ==
    SumTo([i \in 1..Len(columns) |->
              Len(columns[i].queue) + Len(columns[i].current_client)],
          Len(columns))

EndedByBreak == pc = "done" /\ current_time > MINUTES_IN_DAY

Ids(seq) == [k \in 1..Len(seq) |-> seq[k].id]

(***************************************************************************)
(* C1.  As stated: when the loop has ended, served + rejected equals the   *)
(* number of arrival events processed.                                     *)
(***************************************************************************)
C1_Original ==
    pc = "done" => stats.served + stats.rejected = ProcessedArrivals

\* C1, amended: when the loop has ended, served + rejected equals the number
\* of processed arrivals less the requests still waiting or in service; it
\* equals the number of processed arrivals when the loop ended on an empty
\* heap, and is smaller when it ended by the horizon break.
C1_CountersAtEnd ==
    pc = "done" =>
        /\ stats.served + stats.rejected + InSystem = ProcessedArrivals
        /\ ~EndedByBreak => stats.served + stats.rejected = ProcessedArrivals
        /\ EndedByBreak => stats.served + stats.rejected < ProcessedArrivals

C1_Witness ==
    EndedByBreak /\ stats.served > 0 /\ stats.rejected > 0

(***************************************************************************)
(* C2.  Scenario: one column, capacity 1, type "95"; two requests of 10    *)
(* litres of "95" at minute 0.  Claimed: the first starts at minute 0, the *)
(* second is rejected, and the run ends with served = 1, rejected = 1.     *)
(***************************************************************************)
IsScenarioC2 ==
    /\ Len(columns) = 1
    /\ columns[1].max_queue = 1
    /\ columns[1].fuel_types = {"95"}
    /\ Len(clients_data) = 2
    /\ \A k \in 1..2 : /\ clients_data[k].minutes = 0
                       /\ clients_data[k].value = 10
                       /\ clients_data[k].fuel_type = "95"

C2_Scenario ==
    IsScenarioC2 =>
        /\ ProcessedArrivals >= 1 =>
              /\ Len(services[1]) >= 1
              /\ services[1][1].id = 0
              /\ services[1][1].start = 0
        /\ ProcessedArrivals = 2 => admitted[1] = <<0>> /\ stats.rejected = 1
        /\ pc = "done" => stats.served = 1 /\ stats.rejected = 1

(***************************************************************************)
(* C3.  Scenario: one column, capacity 2, type "92"; three requests of 20  *)
(* litres of "92" at minute 0.  Claimed: exactly two are admitted, one of  *)
(* them starting at minute 0, and exactly one is rejected.                 *)
(***************************************************************************)
IsScenarioC3 ==
    /\ Len(columns) = 1
    /\ columns[1].max_queue = 2
    /\ "92" \in columns[1].fuel_types
    /\ Len(clients_data) = 3
    /\ \A k \in 1..3 : /\ clients_data[k].minutes = 0
                       /\ clients_data[k].value = 20
                       /\ clients_data[k].fuel_type = "92"

C3_Scenario ==
    IsScenarioC3 =>
        /\ ProcessedArrivals >= 1 =>
              /\ Len(services[1]) >= 1
              /\ services[1][1].start = 0
        /\ ProcessedArrivals = 3 => Len(admitted[1]) = 2 /\ stats.rejected = 1

(***************************************************************************)
(* C4.  In every state the waiting line of every column is at most its     *)
(* capacity; so is the length recorded right after every append            *)
(* (max_queue_observed), i.e. the line was shorter than the capacity       *)
(* before it; a column of capacity 0 never admits a request.               *)
(***************************************************************************)
C4_QueueWithinCapacity ==
    \A i \in 1..Len(columns) :
        /\ Len(columns[i].queue) <= columns[i].max_queue
        /\ columns[i].max_queue_observed <= columns[i].max_queue
        /\ columns[i].max_queue = 0 =>
              /\ admitted[i] = <<>>
              /\ columns[i].clients_served = 0
              /\ columns[i].current_client = None

C4_Witness ==
    \E i \in 1..Len(columns) :
        /\ columns[i].max_queue > 0
        /\ Len(columns[i].queue) = columns[i].max_queue
        /\ stats.rejected > 0

(***************************************************************************)
(* C5.  The services of a column do not overlap: every service starts at   *)
(* or after the finish of the previous service of the column, the          *)
(* in-service slot holds at most one request, and the request in the slot  *)
(* is the one of the last service started (start and finish are the locals *)
(* of start_service).                                                      *)
(***************************************************************************)
C5_NoOverlap ==
    \A i \in 1..Len(columns) :
        /\ \A k \in 1..(Len(services[i]) - 1) :
              /\ services[i][k].start <= services[i][k].finish
              /\ services[i][k].finish <= services[i][k + 1].start
        /\ Len(columns[i].current_client) <= 1
        /\ columns[i].clients_served = Len(services[i])
        /\ columns[i].current_client # None =>
              /\ services[i] # <<>>
              /\ services[i][Len(services[i])].id = Head(columns[i].current_client).id

C5_Witness ==
    \E i \in 1..Len(columns) :
        /\ Len(services[i]) >= 2
        /\ columns[i].current_client # None

(***************************************************************************)
(* C6.  FIFO: on every column the requests are started in the order in     *)
(* which they were admitted; the waiting line is the rest of the admitted  *)
(* requests, in admission order.                                           *)
(***************************************************************************)
C6_Fifo ==
    \A i \in 1..Len(columns) :
        admitted[i] = Ids(services[i]) \o Ids(columns[i].queue)

C6_Witness ==
    \E i \in 1..Len(columns) :
        /\ Len(services[i]) >= 2
        /\ Len(columns[i].queue) >= 1

(***************************************************************************)
(* C7.  Handling the departure event just handled a second time frees no   *)
(* slot and does not increment served.                                     *)
(***************************************************************************)
C7_DepartureIdempotent ==
    (popped # None /\ Head(popped).type = "departure"
        /\ Head(popped).time <= MINUTES_IN_DAY) =>
        LET again == process_departure(Head(popped).data, columns,
                                       current_time, stats)
        IN  /\ again.stats.served = stats.served
            /\ \A i \in 1..Len(columns) :
                  again.columns[i].current_client = columns[i].current_client

(***************************************************************************)
(* C8.  Events are popped in increasing (time, counter) order; an event    *)
(* pushed while an event is processed lies strictly after the current      *)
(* time and gets the next counter value; counters in the heap are unique   *)
(* and below event_counter.                                                *)
(***************************************************************************)
C8_Step ==
    /\ (popped # None /\ popped' # popped) =>
          \/ Head(popped).time < Head(popped').time
          \/ /\ Head(popped).time = Head(popped').time
             /\ Head(popped).counter < Head(popped').counter
    /\ \A e \in event_queue' \ event_queue :
          /\ e.time > current_time'
          /\ e.counter >= event_counter
          /\ e.counter < event_counter'
    /\ \A e \in event_queue' : e.counter < event_counter'
    /\ \A e1, e2 \in event_queue' : e1.counter = e2.counter => e1 = e2
    /\ event_counter' >= event_counter

C8_EventOrder == [][C8_Step]_vars

C8_Witness ==
    /\ popped # None
    /\ Head(popped).type = "departure"
    /\ \E e \in event_queue : e.type = "departure" /\ e.time = Head(popped).time

(***************************************************************************)
(* C9.  find_best_column returns the eligible column (type supported,      *)
(* line shorter than capacity) with the shortest line, the lowest number   *)
(* among equals, and None exactly when no column is eligible; an arrival   *)
(* is rejected exactly when it returns None.                               *)
(***************************************************************************)
Eligible(cols, fuel_type) ==
    {i \in 1..Len(cols) : /\ fuel_type \in cols[i].fuel_types
                          /\ Len(cols[i].queue) < cols[i].max_queue}

C9_State ==
    \A ft \in VALID_GASOLINE_TYPES :
        LET best == find_best_column(columns, ft)
            el   == Eligible(columns, ft)
        IN  /\ best = NoColumn <=> el = {}
            /\ best # NoColumn =>
                  /\ best \in el
                  /\ \A o \in el :
                        \/ Len(columns[best].queue) < Len(columns[o].queue)
                        \/ /\ Len(columns[best].queue) = Len(columns[o].queue)
                           /\ columns[best].number <= columns[o].number

C9_Step ==
    (popped' # popped /\ Head(popped').type = "arrival") =>
        LET best == find_best_column(columns, Head(popped').data.fuel_type)
        IN  /\ best = NoColumn <=> stats'.rejected = stats.rejected + 1
            /\ best # NoColumn =>
                  /\ stats'.rejected = stats.rejected
                  /\ admitted'[best] = Append(admitted[best], Head(popped').data.id)

C9_FindBestColumn == [](C9_State) /\ [][C9_Step]_vars

C9_Witness ==
    \E ft \in VALID_GASOLINE_TYPES :
        /\ Cardinality(Eligible(columns, ft)) >= 2
        /\ find_best_column(columns, ft) = 2
        /\ Len(columns[1].queue) > Len(columns[2].queue)

(***************************************************************************)
(* C10.  Determinism: a second run over the same columns and requests,     *)
(* fed the same jitter values, is in the same state as the first after     *)
(* every loop iteration: same columns (with their totals), same heap, same *)
(* counters, same clock.                                                   *)
(***************************************************************************)
C10_Determinism ==
    twin # None =>
        /\ Head(twin) = State
        /\ Head(twin).stats = stats
        /\ \A i \in 1..Len(columns) :
              /\ Head(twin).columns[i].clients_served = columns[i].clients_served
              /\ Head(twin).columns[i].total_liters_sold = columns[i].total_liters_sold
              /\ Head(twin).columns[i].sales_by_brand = columns[i].sales_by_brand
              /\ Head(twin).columns[i].max_queue_observed = columns[i].max_queue_observed

C10_Witness ==
    /\ twin # None
    /\ pc = "done"
    /\ Head(twin).pc = "done"
    /\ stats.served >= 2
    /\ stats.rejected >= 1
    /\ Len(clients_data) >= 2
    /\ clients_data[1].minutes = clients_data[2].minutes

Range(seq) == {seq[k] : k \in 1..Len(seq)}

Distinct(seq) == Cardinality(Range(seq)) = Len(seq)

AdmittedIds == UNION {Range(admitted[i]) : i \in 1..Len(columns)}

StartedIds == UNION {Range(Ids(services[i])) : i \in 1..Len(columns)}

WaitingIds == UNION {Range(Ids(columns[i].queue)) : i \in 1..Len(columns)}

InServiceIds == UNION {Range(Ids(columns[i].current_client)) : i \in 1..Len(columns)}

RejectedIds == Range(outcomes.rejected)

DepartedIds == Range(outcomes.departed)

(***************************************************************************)
(* C11.  Every request has at most one outcome and passes each stage at    *)
(* most once.  The rejected counter counts each rejected request once, and *)
(* a rejected request is in no waiting line, was never started and never   *)
(* counted as served.  An admitted request sits in exactly one line, once; *)
(* it is waiting until it is started, in service from its start until its  *)
(* departure, and gone afterwards; it is started at most once and the      *)
(* served counter counts it at most once.  Every processed arrival is      *)
(* either rejected or admitted.                                            *)
(***************************************************************************)
C11_OneOutcome ==
    /\ Distinct(outcomes.rejected)
    /\ stats.rejected = Len(outcomes.rejected)
    /\ RejectedIds \cap (AdmittedIds \cup StartedIds \cup DepartedIds
                           \cup WaitingIds \cup InServiceIds) = {}
    /\ SumTo([i \in 1..Len(columns) |-> Len(admitted[i])], Len(columns))
          = Cardinality(AdmittedIds)
    /\ SumTo([i \in 1..Len(columns) |-> Len(services[i])], Len(columns))
          = Cardinality(StartedIds)
    /\ Distinct(outcomes.departed)
    /\ stats.served = Len(outcomes.departed)
    /\ DepartedIds \subseteq StartedIds
    /\ StartedIds \subseteq AdmittedIds
    /\ WaitingIds = AdmittedIds \ StartedIds
    /\ InServiceIds = StartedIds \ DepartedIds
    /\ Cardinality(RejectedIds \cup AdmittedIds) = ProcessedArrivals

\* one request rejected, one served and gone, one in service
C11_Witness ==
    /\ stats.rejected = 1
    /\ stats.served = 1
    /\ InServiceIds # {}
    /\ DepartedIds # {}

(***************************************************************************)
(* C12.  A run over an empty request list processes no event: in every     *)
(* state of such a run, the final one included, nothing was popped, served *)
(* and rejected are 0, and every column has clients_served = 0,            *)
(* total_liters_sold = 0, every sales_by_brand entry 0, max_queue_observed *)
(* = 0, an empty waiting line and an empty in-service slot.                *)
(***************************************************************************)
C12_EmptyRun ==
    clients_data = <<>> =>
        /\ popped = None
        /\ event_counter = 0
        /\ stats = [served |-> 0, rejected |-> 0]
        /\ \A i \in 1..Len(columns) :
              /\ columns[i].clients_served = 0
              /\ columns[i].total_liters_sold = 0
              /\ \A b \in DOMAIN columns[i].sales_by_brand :
                    columns[i].sales_by_brand[b] = 0
              /\ columns[i].max_queue_observed = 0
              /\ columns[i].queue = <<>>
              /\ columns[i].current_client = None

\* the run over an empty request list has ended, on a station with two columns
C12_Witness ==
    /\ clients_data = <<>>
    /\ pc = "done"
    /\ Len(columns) = 2

C13_State ==
    /\ pc = "loop" => current_time <= MINUTES_IN_DAY
    /\ pc = "done" => \A e \in event_queue : e.time > MINUTES_IN_DAY
    /\ EndedByBreak =>
          /\ Head(popped).time > MINUTES_IN_DAY
          /\ (WaitingIds \cup InServiceIds) \cap (DepartedIds \cup RejectedIds) = {}
          /\ stats.served + stats.rejected + InSystem = ProcessedArrivals

C13_Step ==
    /\ pc = "done" => UNCHANGED vars
    /\ popped' # popped =>
          LET ev == Head(popped')
          IN  IF ev.time > MINUTES_IN_DAY
              THEN /\ pc' = "done"
                   /\ UNCHANGED <<columns, stats, event_counter, admitted,
                                  services, outcomes>>
                   /\ event_queue' = event_queue \ {ev}
              ELSE /\ pc' = "loop"
                   /\ current_time' = ev.time
                   /\ ev.type = "departure" =>
                         /\ stats'.served = stats.served + 1
                         /\ columns' # columns
                   /\ ev.type = "arrival" =>
                         \/ stats'.rejected = stats.rejected + 1
                         \/ ev.data.id \in AdmittedIds' \ AdmittedIds

(***************************************************************************)
(* C13.  Horizon cut-off.  An event popped with a time greater than        *)
(* MINUTES_IN_DAY changes no counter and no column and ends the loop; an   *)
(* event popped with a time up to and including MINUTES_IN_DAY is          *)
(* processed (a departure is counted, an arrival is rejected or admitted)  *)
(* and the loop goes on.  After the loop nothing changes any more, no      *)
(* event with a time within the horizon is left in the heap, and the       *)
(* requests still waiting or in service after a break are counted neither  *)
(* as served nor as rejected.                                              *)
(***************************************************************************)
C13_Horizon == [](C13_State) /\ [][C13_Step]_vars

\* a departure at exactly MINUTES_IN_DAY was processed, then an event beyond
\* the horizon ended the loop and left another event in the heap
C13_Witness ==
    /\ EndedByBreak
    /\ event_queue # {}
    /\ InServiceIds # {}
    /\ \E i \in 1..Len(columns) : \E k \in 1..Len(services[i]) :
          /\ services[i][k].finish = MINUTES_IN_DAY
          /\ services[i][k].id \in DepartedIds

\* the ceiling of q / REFUELING_RATE, by its defining inequalities
CeilOfRate(q) ==
    CHOOSE c \in 0..q : REFUELING_RATE * (c - 1) < q /\ q <= REFUELING_RATE * c

(***************************************************************************)
(* C14.  For every positive quantity q and every drawn jitter j in         *)
(* {-1, 0, 1}, calculate_service_time returns ceil(q / REFUELING_RATE) + j *)
(* when that is at least 1 and 1 otherwise; the result is an integer, at   *)
(* least 1, and differs from ceil(q / REFUELING_RATE) by at most 1.        *)
(***************************************************************************)
C14_ServiceTime ==
    (call # None /\ Head(call).result # None) =>
        LET q == Head(call).fuel_amount
            j == Head(call).variation
            r == Head(Head(call).result)
            c == CeilOfRate(q)
        IN  /\ j \in {-1, 0, 1}
            /\ c + j >= 1 => r = c + j
            /\ c + j < 1 => r = 1
            /\ r \in Nat
            /\ r >= 1
            /\ r - c \in {-1, 0, 1}

\* a quantity that is no multiple of the rate, with the jitter that brings
\* the clamp into play, and one where the ceiling rounds up to 3
C14_Witness ==
    /\ call # None
    /\ Head(call).result # None
    /\ \/ Head(call) = [fuel_amount |-> 5, variation |-> -1, result |-> Some(1)]
       \/ Head(call) = [fuel_amount |-> 21, variation |-> 1, result |-> Some(4)]

\* events taken off the heap so far: one per iteration of the loop
Iterations == event_counter - Cardinality(event_queue)

C15_Bounded ==
    /\ event_counter <= 2 * Len(clients_data)
    /\ Iterations <= 2 * Len(clients_data)
    /\ event_counter - Len(clients_data) = Cardinality(StartedIds)
    /\ Cardinality({e \in event_queue : e.type = "arrival"})
          = Len(clients_data) - ProcessedArrivals

C15_Step ==
    event_queue' # event_queue =>
        /\ Iterations' = Iterations + 1
        /\ Cardinality(event_queue') <= Cardinality(event_queue)

(***************************************************************************)
(* C15.  Every run terminates.  The loop ends in every run that keeps      *)
(* executing; the events pushed are one arrival per request and one        *)
(* departure per started request, at most twice the number of requests in  *)
(* all; every iteration takes exactly one event off the heap and pushes at *)
(* most one, so the loop makes at most 2 x (number of requests)            *)
(* iterations.                                                             *)
(***************************************************************************)
C15_Terminates == [](C15_Bounded) /\ [][C15_Step]_vars /\ <>(pc = "done")

\* a run over three requests has ended after all six events
C15_Witness ==
    /\ pc = "done"
    /\ Len(clients_data) = 3
    /\ event_counter = 6
    /\ event_queue = {}

\* the event carries exactly the request in the slot of the column it names
Addressed(cols, dep) ==
    LET c == LookupColumn(cols, dep.column)
    IN  /\ c # NoColumn
        /\ cols[c].current_client = Some(dep.client)
        /\ SameClient(Head(cols[c].current_client), dep.client)

C16_State ==
    \A e \in event_queue : e.type = "departure" => Addressed(columns, e.data)

C16_Step ==
    (popped' # popped /\ Head(popped').type = "departure"
        /\ Head(popped').time <= MINUTES_IN_DAY) =>
        /\ Addressed(columns, Head(popped').data)
        /\ stats'.served = stats.served + 1
        /\ Len(outcomes'.departed) = Len(outcomes.departed) + 1
        /\ outcomes'.departed[Len(outcomes'.departed)]
              = Head(popped').data.client.id

(***************************************************************************)
(* C16.  Stale departures never occur.  Every departure event in the heap, *)
(* and so every departure event popped within the horizon, names a column  *)
(* whose in-service request is exactly the request the event carries; the  *)
(* comparison in process_departure succeeds, the step increments served by *)
(* exactly 1 and the request that leaves is the one the event carries.     *)
(***************************************************************************)
C16_NoStaleDeparture == [](C16_State) /\ [][C16_Step]_vars

\* the second column's departure was popped while the first column was busy
\* with another request
C16_Witness ==
    /\ Len(columns) = 2
    /\ popped # None
    /\ Head(popped).type = "departure"
    /\ Head(popped).data.column = columns[2].number
    /\ Head(popped).time <= MINUTES_IN_DAY
    /\ columns[1].current_client # None
    /\ stats.served = 1

\* the departure events in the heap for column i
PendingDepartures(i) ==
    {e \in event_queue : e.type = "departure" /\ e.data.column = columns[i].number}

\* a column in service has exactly one departure event in the heap, at its
\* time_free; an idle column has none
C17_Pending ==
    \A i \in 1..Len(columns) :
        IF columns[i].current_client # None
        THEN /\ Cardinality(PendingDepartures(i)) = 1
             /\ \A e \in PendingDepartures(i) : e.time = columns[i].time_free
        ELSE PendingDepartures(i) = {}

\* the contract of one call: column `before` with an empty slot and a
\* non-empty line, called at time now, result r
StartContract(before, now, r) ==
    LET client == Head(before.queue)
        start  == IF now >= before.time_free THEN now ELSE before.time_free
        finish == start + client.service_time
    IN  /\ r.column.current_client = Some(client)
        /\ r.column.queue = Tail(before.queue)
        /\ r.column.time_free = finish
        /\ r.column.total_liters_sold = before.total_liters_sold + client.amount
        /\ \A b \in DOMAIN before.sales_by_brand :
              r.column.sales_by_brand[b] =
                 before.sales_by_brand[b]
                   + (IF b = client.fuel_type THEN client.amount ELSE 0)
        /\ r.column.clients_served = before.clients_served + 1
        /\ r.column.number = before.number
        /\ r.column.max_queue = before.max_queue
        /\ r.column.fuel_types = before.fuel_types
        /\ r.column.max_queue_observed = before.max_queue_observed
        /\ r.dep # None
        /\ Head(r.dep).time = finish
        /\ Head(r.dep).type = "departure"
        /\ Head(r.dep).column = before.number
        /\ Head(r.dep).client = client

\* start_service called on the columns of the state: as they are (slot
\* occupied or line empty: nothing happens), and with the slot just cleared
\* as process_departure calls it, at the current time and at an earlier one
C17_Calls ==
    \A i \in 1..Len(columns) :
        /\ (columns[i].current_client # None \/ columns[i].queue = <<>>) =>
              start_service(columns[i], current_time)
                 = [column |-> columns[i], dep |-> None]
        /\ columns[i].queue # <<>> =>
              LET freed == [columns[i] EXCEPT !.current_client = None]
              IN  \A now \in {current_time, columns[i].time_free,
                              columns[i].time_free - 1} :
                     StartContract(freed, now, start_service(freed, now))

\* a step in which column i started a service: what it did to the column and
\* to the heap; a step without a start leaves the column's totals alone
C17_Step ==
    \A i \in 1..Len(columns) :
        IF Len(services'[i]) > Len(services[i])
        THEN LET new    == services'[i][Len(services'[i])]
                 client == Head(columns'[i].current_client)
                 pushed == {e \in event_queue' \ event_queue :
                               e.data.column = columns[i].number}
             IN  /\ Len(services'[i]) = Len(services[i]) + 1
                 /\ columns'[i].current_client # None
                 /\ new.id = client.id
                 /\ new.start = IF current_time' >= columns[i].time_free
                                THEN current_time' ELSE columns[i].time_free
                 /\ columns'[i].time_free = new.start + client.service_time
                 /\ columns'[i].total_liters_sold
                       = columns[i].total_liters_sold + client.amount
                 /\ columns'[i].sales_by_brand[client.fuel_type]
                       = columns[i].sales_by_brand[client.fuel_type] + client.amount
                 /\ columns'[i].clients_served = columns[i].clients_served + 1
                 /\ Cardinality(pushed) = 1
                 /\ \A e \in pushed : /\ e.time = columns'[i].time_free
                                      /\ e.type = "departure"
                                      /\ e.data.client = client
        ELSE /\ columns'[i].time_free = columns[i].time_free
             /\ columns'[i].total_liters_sold = columns[i].total_liters_sold
             /\ columns'[i].sales_by_brand = columns[i].sales_by_brand
             /\ columns'[i].clients_served = columns[i].clients_served

(***************************************************************************)
(* C17, as stated: the contract of start_service, and in every state a     *)
(* column with a request in service has exactly one departure event in the *)
(* heap, at its time_free.                                                 *)
(***************************************************************************)
C17_Original == C17_Calls /\ C17_Pending

(***************************************************************************)
(* C17, amended.  start_service on a column with an empty slot and a       *)
(* non-empty line, called at time now, sets start = max(now, time_free),   *)
(* finish = start + service_time, time_free = finish, adds the quantity to *)
(* total_liters_sold and to the type's sales_by_brand entry, increments    *)
(* clients_served and returns a departure event at finish; with the slot   *)
(* occupied or the line empty it changes nothing and returns no event.     *)
(* While the loop runs, a column with a request in service has exactly one *)
(* departure event in the heap, at its time_free, and an idle column none. *)
(* After a horizon break this need not hold: the discarded event's column  *)
(* keeps its request in the slot.                                          *)
(***************************************************************************)
C17_StartService ==
    /\ [](C17_Calls /\ (pc = "loop" => C17_Pending))
    /\ [][C17_Step]_vars

\* a departure started the next request of the line later than the column's
\* previous time_free could require: two services logged, one event pending
C17_Witness ==
    /\ pc = "loop"
    /\ \E i \in 1..Len(columns) :
          /\ Len(services[i]) = 2
          /\ columns[i].current_client # None
          /\ columns[i].queue # <<>>
          /\ Cardinality(PendingDepartures(i)) = 1

\* a column with nothing in service and somebody waiting
IdleWithBacklog(col) == col.current_client = None /\ col.queue # <<>>

C18_State == \A i \in 1..Len(columns) : ~IdleWithBacklog(columns[i])

C18_Step ==
    (popped' # popped /\ Head(popped').type = "departure"
        /\ Head(popped').time <= MINUTES_IN_DAY) =>
        LET ev == Head(popped')
            c  == LookupColumn(columns, ev.data.column)
            pushed == event_queue' \ event_queue
        IN  IF columns[c].queue # <<>>
            THEN /\ columns'[c].current_client = Some(Head(columns[c].queue))
                 /\ columns'[c].queue = Tail(columns[c].queue)
                 /\ Len(services'[c]) = Len(services[c]) + 1
                 /\ services'[c][Len(services'[c])].id = Head(columns[c].queue).id
                 /\ services'[c][Len(services'[c])].start = ev.time
                 /\ Cardinality(pushed) = 1
                 /\ \A e \in pushed : /\ e.type = "departure"
                                      /\ e.data.column = ev.data.column
                                      /\ e.data.client = Head(columns[c].queue)
                 /\ event_counter' = event_counter + 1
            ELSE /\ columns'[c].current_client = None
                 /\ pushed = {}
                 /\ event_counter' = event_counter

(***************************************************************************)
(* C18.  Work conservation at event boundaries.  In every state between    *)
(* two iterations no column has an empty in-service slot together with a   *)
(* non-empty waiting line.  A departure popped within the horizon on a     *)
(* column whose line is not empty starts the head of the line at the       *)
(* departure's time and pushes exactly one departure event, for that       *)
(* request; on a column whose line is empty it leaves the slot empty and   *)
(* pushes nothing.                                                         *)
(***************************************************************************)
C18_WorkConservation == [](C18_State) /\ [][C18_Step]_vars

\* a departure has just handed the column over to the request that waited
C18_Witness ==
    /\ popped # None
    /\ Head(popped).type = "departure"
    /\ Head(popped).time <= MINUTES_IN_DAY
    /\ \E i \in 1..Len(columns) :
          /\ columns[i].number = Head(popped).data.column
          /\ Len(services[i]) >= 2
          /\ services[i][Len(services[i])].start = Head(popped).time
          /\ columns[i].current_client # None

\* some run of the loop without lines 224-231 from state s passes through a
\* state with an idle column and a waiting request
RECURSIVE CanReachBacklog(_)
CanReachBacklog(s) ==
    \/ \E i \in 1..Len(s.columns) : IdleWithBacklog(s.columns[i])
    \/ /\ s.pc = "loop"
       /\ \E ev \in HeapMin(s.event_queue), variation \in JITTER :
             CanReachBacklog(LoopIterationNoRescan(s, ev, variation))

(***************************************************************************)
(* C19, as stated: for some station and some request list, a run of the    *)
(* loop without lines 224-231 reaches, after a processed event, a state in *)
(* which a column has no request in service and a non-empty waiting line.  *)
(* The statement is about all stations and request lists at once; it is    *)
(* evaluated where a run starts.                                           *)
(***************************************************************************)
C19_Original ==
    popped = None =>
        \E columns_info \in ColumnInfos, clients \in ClientLists :
            CanReachBacklog(InitialState(columns_info, clients))

(***************************************************************************)
(* C19, amended.  The scan of all columns after an arrival never starts a  *)
(* service: an idle column always has time_free <= the current time, so    *)
(* process_arrival starts the service itself.  The loop without lines      *)
(* 224-231, run over the same inputs with the same jitter values, is in    *)
(* the same state as the program after every iteration, and never has an   *)
(* idle column with a non-empty waiting line.                              *)
(***************************************************************************)
C19_RescanRedundant ==
    bare # None =>
        /\ Head(bare) = State
        /\ \A i \in 1..Len(Head(bare).columns) :
              ~IdleWithBacklog(Head(bare).columns[i])
        /\ \A i \in 1..Len(columns) :
              columns[i].current_client = None => columns[i].time_free <= current_time
        /\ Rescan(State, 1) = State

\* both loops have served a request that had to wait, and have ended
C19_Witness ==
    /\ bare # None
    /\ pc = "done"
    /\ Head(bare).pc = "done"
    /\ \E i \in 1..Len(columns) : \E k \in 1..Len(services[i]) :
          /\ k >= 2
          /\ services[i][k].id \in DepartedIds
    /\ stats.rejected >= 1

C20_Step ==
    (popped' # popped /\ Head(popped').time <= MINUTES_IN_DAY) =>
        LET ev == Head(popped')
        IN  IF ev.type = "arrival"
            THEN IF Eligible(columns, ev.data.fuel_type) = {}
                 THEN /\ stats'.rejected = stats.rejected + 1
                      /\ stats'.served = stats.served
                      /\ columns' = columns
                      /\ event_queue' = event_queue \ {ev}
                      /\ event_counter' = event_counter
                 ELSE /\ stats' = stats
                      /\ \E i \in 1..Len(columns) :
                            /\ columns'[i] # columns[i]
                            /\ ev.data.id \in Range(admitted'[i])
                            /\ \A o \in 1..Len(columns) :
                                  o # i => columns'[o] = columns[o]
            ELSE /\ stats'.rejected = stats.rejected
                 /\ \E i \in 1..Len(columns) :
                       /\ columns[i].number = ev.data.column
                       /\ columns'[i] # columns[i]
                       /\ \A o \in 1..Len(columns) :
                             o # i => columns'[o] = columns[o]

(***************************************************************************)
(* C20.  Frame of a rejection.  An arrival for which no column is eligible *)
(* increments rejected by exactly 1, leaves served and every field of      *)
(* every column as they were and pushes no event.  An admitted arrival     *)
(* changes neither counter and only the column it is admitted to; a        *)
(* departure leaves rejected alone and changes only the column it names.   *)
(***************************************************************************)
C20_Frame == [][C20_Step]_vars

\* a request was rejected while one column was serving and had a request
\* waiting
C20_Witness ==
    /\ popped # None
    /\ Head(popped).type = "arrival"
    /\ Head(popped).data.id \in RejectedIds
    /\ Len(columns) = 2
    /\ InServiceIds # {}
    /\ WaitingIds # {}

\* requests in all waiting lines
TotalWaiting ==
    SumTo([i \in 1..Len(columns) |-> Len(columns[i].queue)], Len(columns))

\* columns whose in-service slot is occupied
BusyColumns ==
    Cardinality({i \in 1..Len(columns) : columns[i].current_client # None})

(***************************************************************************)
(* C21.  Request conservation.  In every state between two iterations and  *)
(* at the end of the run, the number of arrival events processed so far    *)
(* equals rejected + served + the number of requests in all waiting lines  *)
(* + the number of columns whose in-service slot is occupied; so at the    *)
(* end served + rejected falls short of the processed arrivals by exactly  *)
(* the number of requests still waiting or in service.                     *)
(***************************************************************************)
C21_Conservation ==
    /\ ProcessedArrivals
          = stats.rejected + stats.served + TotalWaiting + BusyColumns
    /\ pc = "done" =>
          ProcessedArrivals - (stats.served + stats.rejected)
             = Cardinality(WaitingIds \cup InServiceIds)

\* the run was cut by the horizon with one request rejected, one waiting and
\* one in service
C21_Witness ==
    /\ EndedByBreak
    /\ stats.rejected = 1
    /\ TotalWaiting = 1
    /\ BusyColumns = 1
    /\ ProcessedArrivals = 3

\* the sum of f over the finite set S
RECURSIVE SumOver(_, _)
SumOver(f, S) ==
    IF S = {} THEN 0
    ELSE LET x == CHOOSE x \in S : TRUE IN f[x] + SumOver(f, S \ {x})

\* the sum over all columns of clients_served
TotalClientsServed ==
    SumTo([i \in 1..Len(columns) |-> columns[i].clients_served], Len(columns))

(***************************************************************************)
(* C22.  Per-column counts are taken at service start.  In every state the *)
(* sum over all columns of clients_served equals the global served counter *)
(* plus the number of columns whose in-service slot is occupied; each      *)
(* column's clients_served is the number of services it has started, and   *)
(* its total_liters_sold equals the sum of its sales_by_brand entries.     *)
(***************************************************************************)
C22_CountsAtStart ==
    /\ TotalClientsServed = stats.served + BusyColumns
    /\ \A i \in 1..Len(columns) :
          /\ columns[i].clients_served = Len(services[i])
          /\ columns[i].clients_served
                = Cardinality(Range(Ids(services[i])) \cap DepartedIds)
                    + Len(columns[i].current_client)
          /\ columns[i].total_liters_sold
                = SumOver(columns[i].sales_by_brand,
                          DOMAIN columns[i].sales_by_brand)

\* the run has ended and the columns report more served requests and litres
\* than the global counter accounts for
C22_Witness ==
    /\ pc = "done"
    /\ stats.served = 1
    /\ TotalClientsServed = 3
    /\ \E i \in 1..Len(columns) :
          /\ columns[i].current_client # None
          /\ columns[i].sales_by_brand["92"] > 0
          /\ columns[i].sales_by_brand["95"] > 0

C23_State ==
    \A i \in 1..Len(columns) :
        columns[i].current_client = None => columns[i].time_free <= current_time

C23_Step ==
    (popped' # popped /\ Head(popped').time <= MINUTES_IN_DAY) =>
        LET ev == Head(popped')
        IN  /\ \A i \in 1..Len(columns) :
                  /\ columns[i].current_client = None =>
                        columns[i].time_free <= ev.time
                  /\ Len(services'[i]) > Len(services[i]) =>
                        /\ services'[i][Len(services'[i])].start = ev.time
                        /\ columns[i].time_free <= ev.time
            /\ ev.type = "arrival" =>
                  \A i \in 1..Len(columns) :
                      (columns[i].current_client = None
                          /\ ev.data.id \in Range(admitted'[i])) =>
                          /\ columns'[i].current_client # None
                          /\ Head(columns'[i].current_client).id = ev.data.id
                          /\ Len(services'[i]) = Len(services[i]) + 1
                          /\ services'[i][Len(services'[i])].id = ev.data.id
                          /\ services'[i][Len(services'[i])].start = ev.data.minutes
                          /\ columns'[i].queue = <<>>

(***************************************************************************)
(* C23.  A column whose in-service slot is empty has time_free <= the      *)
(* current time, and <= the time of the next event processed.  So the      *)
(* time_free test of process_arrival never keeps a service from starting,  *)
(* every service starts exactly at the time of the event that triggers it, *)
(* and a request admitted to an idle column starts at its own arrival      *)
(* minute, without waiting.                                                *)
(***************************************************************************)
C23_StartsAtEventTime == [](C23_State) /\ [][C23_Step]_vars

\* a request arriving at a later minute was admitted to a column that had
\* served before and was idle, and started at once
C23_Witness ==
    /\ popped # None
    /\ Head(popped).type = "arrival"
    /\ Head(popped).time > 0
    /\ \E i \in 1..Len(columns) :
          /\ Len(services[i]) >= 2
          /\ services[i][Len(services[i])].id = Head(popped).data.id
          /\ services[i][Len(services[i])].start = Head(popped).time
          /\ services[i][1].finish <= Head(popped).time

C24_State ==
    \A e \in event_queue :
        /\ e.type = "arrival" => e.counter < Len(clients_data)
        /\ e.type = "departure" => e.counter >= Len(clients_data)

C24_Step ==
    (popped' # popped /\ Head(popped').type = "departure") =>
        /\ \A a \in event_queue' :
              a.type = "arrival" => a.time > Head(popped').time
        /\ \A i \in 1..Len(clients_data) :
              clients_data[i].minutes <= Head(popped').time =>
                 clients_data[i].id \in RejectedIds \cup AdmittedIds

(***************************************************************************)
(* C24.  Among events with the same time every arrival is processed before *)
(* every departure: the arrivals are seeded with the counters below the    *)
(* number of requests, every departure gets a counter from that number on, *)
(* and when a departure at minute t is popped every request with an        *)
(* arrival minute up to t has already been admitted or rejected.  (The     *)
(* witness is the case the claim names: a request rejected at minute t     *)
(* although a departure at minute t then makes room in that line.)         *)
(***************************************************************************)
C24_ArrivalsFirst == [](C24_State) /\ [][C24_Step]_vars

\* a request has just been rejected at minute t by a column with a full
\* line, and that column's departure at minute t is still in the heap
C24_Witness ==
    /\ popped # None
    /\ Head(popped).type = "arrival"
    /\ Head(popped).data.id \in RejectedIds
    /\ Len(columns) = 1
    /\ Head(popped).data.fuel_type \in columns[1].fuel_types
    /\ columns[1].max_queue >= 1
    /\ Len(columns[1].queue) = columns[1].max_queue
    /\ \E d \in event_queue :
          /\ d.type = "departure"
          /\ d.time = Head(popped).time
          /\ d.data.column = columns[1].number

\* statistics.py line 121-122: the divisor of the loss percentage is not zero
LossPercentageDefined == stats.served + stats.rejected # 0

(***************************************************************************)
(* C25.  Claimed: a run over a non-empty request list ends with            *)
(* served + rejected > 0, so the loss percentage of calculate_statistics   *)
(* is defined.  A single request whose departure falls beyond the horizon  *)
(* ends the run with both counters at 0.                                   *)
(***************************************************************************)
C25_LossDefined ==
    (pc = "done" /\ clients_data # <<>>) =>
        /\ stats.served + stats.rejected > 0
        /\ LossPercentageDefined

\* the same columns with every in-service slot emptied
Vacated(cols) ==
    [i \in 1..Len(cols) |-> [cols[i] EXCEPT !.current_client = None]]

C26_State ==
    \A ft \in VALID_GASOLINE_TYPES :
        find_best_column(columns, ft) = find_best_column(Vacated(columns), ft)

C26_Step ==
    (popped' # popped /\ Head(popped').type = "arrival") =>
        LET ev == Head(popped')
        IN  \A i, o \in 1..Len(columns) :
               (/\ ev.data.id \in Range(admitted'[i])
                /\ columns[i].current_client # None
                /\ o \in Eligible(columns, ev.data.fuel_type)
                /\ columns[o].current_client = None
                /\ columns[o].queue = <<>>) =>
                   /\ columns[i].queue = <<>>
                   /\ columns[i].number < columns[o].number
                   /\ ev.data.id \in Range(Ids(columns'[i].queue))
                   /\ columns'[o] = columns[o]

(***************************************************************************)
(* C26.  The assignment ignores whether a column is serving: the column    *)
(* find_best_column returns does not change when the in-service slots are  *)
(* emptied.  When a request is admitted to a serving column although an    *)
(* eligible column is idle with an empty line, both lines were empty, the  *)
(* serving column has the lower number, the request waits there and the    *)
(* idle column is left as it was.  Such a state is reachable (the witness).*)
(***************************************************************************)
C26_IgnoresService == [](C26_State) /\ [][C26_Step]_vars

\* the request just admitted waits behind the one in service on the first
\* column while the second column, which supports its type, is idle with an
\* empty line
C26_Witness ==
    /\ popped # None
    /\ Head(popped).type = "arrival"
    /\ Len(columns) = 2
    /\ columns[1].current_client # None
    /\ Ids(columns[1].queue) = <<Head(popped).data.id>>
    /\ Head(popped).data.fuel_type \in columns[2].fuel_types
    /\ columns[2].current_client = None
    /\ columns[2].queue = <<>>
    /\ columns[2].max_queue > 0

====
